---- MODULE Spec2Model ----
(***************************************************************************)
(* Model of firmware/application/file.cpp (PortaPack): the File handle     *)
(* with its sticky error field, and the sequential filename allocator      *)
(* built on the FatFs directory search.                                    *)
(*                                                                         *)
(* The FatFs driver (f_open, f_read, ...) is an external collaborator: it  *)
(* is modelled by the set of outcomes each call can produce.               *)
(***************************************************************************)
EXTENDS Integers, Sequences, FiniteSets, TLC

(***************************************************************************)
(* Bounds of the model.                                                    *)
(***************************************************************************)
\* capacity of the medium in bytes: file sizes and positions are 0..MaxSize
MaxSize == 2
\* greatest byte count / string length handed to read, write and puts
MaxLen == 2
\* greatest number of directory entries on the medium
MaxEntries == 3

Min(a, b) == IF a < b THEN a ELSE b
Max(a, b) == IF a > b THEN a ELSE b

(***************************************************************************)
(* Error codes.  FR_OK and the driver's own codes are FatFs FRESULT        *)
(* values; the three added values lie outside the FRESULT data type.       *)
(***************************************************************************)
FR_OK == "FR_OK"
FR_DISK_FULL == "FR_DISK_FULL"
FR_EOF == "FR_EOF"
FR_BAD_SEEK == "FR_BAD_SEEK"

\* failure codes of f_open
OpenErrs == {"FR_NO_FILE", "FR_DISK_ERR"}

\* File::openmode flags
OpenModes == {"in", "out", "trunc", "ate"}

VARIABLES
    life,       \* "unborn" | "live" | "dead": the File object's lifetime
    err,        \* File::err
    f,          \* File::f, the FatFs FIL object, with the file's size
    last,       \* the last call on the handle: arguments, state before, result
    closes,     \* number of f_close calls made for this handle
    opened,     \* f_open returned FR_OK for this handle
    dir,        \* the directory on the medium: a sequence of entries
    pattern,    \* the stem pattern handed to the allocator
    apc,        \* position of the allocator: "idle" | "loop" | "done"
    impl,       \* directory_iterator::impl of the loop's iterator
    last_match, \* find_last_file_matching_pattern: last_match
    drv_failed, \* the driver failed during the current enumeration
    stem,       \* result of next_filename_stem_matching_pattern
    it,         \* two directory_iterator objects a, b: what each one's impl is
    obj,        \* the Impl the iterators share: search place and FILINFO
    itlog,      \* the last call on an iterator
    nadv,       \* number of operator++ calls since the construction
    itfail,     \* the driver failed during the enumeration
    trap,       \* the processor trapped on an access through a null impl
    geo,        \* what f_getfree answers for the volume
    info,       \* the space_info returned by space()
    inc_in,     \* a stem handed to increment_filename_stem_ordinal
    inc_out     \* what it returned

fileVars == <<life, err, f, last, closes, opened>>
allocVars == <<dir, pattern, apc, impl, last_match, drv_failed, stem>>
iterVars == <<it, obj, itlog, nadv, itfail, trap>>
spaceVars == <<geo, info>>
incVars == <<inc_in, inc_out>>
vars == <<life, err, f, last, closes, opened, dir, pattern, apc, impl,
          last_match, drv_failed, stem, it, obj, itlog, nadv, itfail, trap,
          geo, info, inc_in, inc_out>>

(***************************************************************************)
(* The FatFs driver, file part.  Each operator is the set of outcomes the  *)
(* call can have on the FIL object fil.                                    *)
(***************************************************************************)
NoFile == [valid |-> FALSE, flag |-> {}, fptr |-> 0, fsize |-> 0]

\* a driver call as it is logged in last.calls
Call(fn, flags, n) == [fn |-> fn, flags |-> flags, n |-> n]

f_open(flags) ==
    {[res |-> FR_OK,
      f |-> [valid |-> TRUE, flag |-> flags, fptr |-> 0, fsize |-> s]] :
        s \in IF "FA_CREATE_ALWAYS" \in flags THEN {0} ELSE 0..MaxSize}
    \cup {[res |-> e, f |-> NoFile] : e \in OpenErrs}

f_close(fil) == [fil EXCEPT !.valid = FALSE]

\* where a successful f_lseek to ofs ends: a read-only file is clamped to its
\* size, a writable one is extended as far as the medium allows
SeekTarget(fil, ofs) ==
    IF ofs > fil.fsize
    THEN IF "FA_WRITE" \in fil.flag THEN Min(ofs, MaxSize) ELSE fil.fsize
    ELSE ofs

f_lseek(fil, ofs) ==
    IF ~fil.valid
    THEN {[res |-> "FR_INVALID_OBJECT", f |-> fil]}
    ELSE LET t == SeekTarget(fil, ofs)
             moved == [fil EXCEPT !.fptr = t, !.fsize = Max(fil.fsize, t)]
         IN {[res |-> FR_OK, f |-> moved]}
            \cup {[res |-> "FR_DISK_ERR", f |-> g] : g \in {fil, moved}}

f_read(fil, n) ==
    IF ~fil.valid
    THEN {[res |-> "FR_INVALID_OBJECT", f |-> fil, count |-> 0]}
    ELSE IF "FA_READ" \notin fil.flag
    THEN {[res |-> "FR_DENIED", f |-> fil, count |-> 0]}
    ELSE LET avail == Min(n, fil.fsize - fil.fptr)
         IN {[res |-> FR_OK, f |-> [fil EXCEPT !.fptr = @ + avail],
              count |-> avail]}
            \cup {[res |-> "FR_DISK_ERR", f |-> [fil EXCEPT !.fptr = @ + k],
                   count |-> k] : k \in 0..avail}

f_write(fil, n) ==
    IF ~fil.valid
    THEN {[res |-> "FR_INVALID_OBJECT", f |-> fil, count |-> 0]}
    ELSE IF "FA_WRITE" \notin fil.flag
    THEN {[res |-> "FR_DENIED", f |-> fil, count |-> 0]}
    ELSE LET room == Min(n, MaxSize - fil.fptr)
             put(k) == [fil EXCEPT !.fptr = @ + k,
                                   !.fsize = Max(@, fil.fptr + k)]
         IN {[res |-> FR_OK, f |-> put(room), count |-> room]}
            \cup {[res |-> "FR_DISK_ERR", f |-> put(k), count |-> k] :
                    k \in 0..room}

f_sync(fil) ==
    IF ~fil.valid
    THEN {[res |-> "FR_INVALID_OBJECT", f |-> fil]}
    ELSE {[res |-> r, f |-> fil] : r \in {FR_OK, "FR_DISK_ERR"}}

\* f_puts returns the number of characters put, or EOF (-1); the count differs
\* from the std::string's size when c_str() ends early at an embedded NUL
f_puts(fil, len) ==
    IF ~fil.valid \/ "FA_WRITE" \notin fil.flag
    THEN {[result |-> -1, f |-> fil]}
    ELSE {[result |-> -1, f |-> fil]}
         \cup {[result |-> k,
                f |-> [fil EXCEPT !.fptr = @ + k,
                                  !.fsize = Max(@, fil.fptr + k)]] :
                 k \in {j \in 0..len : fil.fptr + j <= MaxSize}}

(***************************************************************************)
(* File: the handle.                                                       *)
(***************************************************************************)
\* the record kept of the last call on the handle: the operation and its
\* arguments (mode; n; hi, the part of a seek offset above the driver's DWORD),
\* the state it found, what it returned (retb for the bool results, retpos for
\* seek), the driver calls it made, in order, and what the driver's transfer
\* call answered (res, count; for the constructor res is f_open's result, count
\* the file's size and sres the result of the seek to the end)
NoCall ==
    [op |-> "none", mode |-> {}, n |-> 0, hi |-> 0,
     pre_err |-> FR_OK, pre_f |-> NoFile,
     retb |-> FALSE, retpos |-> 0, calls |-> <<>>, res |-> "-", count |-> 0,
     sres |-> "-"]

Done(op, n, retb, calls, res) ==
    [NoCall EXCEPT !.op = op, !.n = n, !.pre_err = err, !.pre_f = f,
                   !.retb = retb, !.calls = calls, !.res = res]

\* variant of fatfs_mode in which trunc and ate exclude each other
fatfs_modeExclusive(mode) ==
    (IF "in" \in mode THEN {"FA_READ"} ELSE {})
    \cup (IF "out" \in mode THEN {"FA_WRITE"} ELSE {})
    \cup (IF "trunc" \in mode THEN {"FA_CREATE_ALWAYS"}
          ELSE IF "ate" \in mode THEN {"FA_OPEN_ALWAYS"} ELSE {})

\* File::File, the fatfs_mode computed from the openmode
fatfs_mode(mode) ==
    (IF "in" \in mode THEN {"FA_READ"} ELSE {})
    \cup (IF "out" \in mode THEN {"FA_WRITE"} ELSE {})
    \cup (IF "trunc" \in mode THEN {"FA_CREATE_ALWAYS"} ELSE {})
    \cup (IF "ate" \in mode THEN {"FA_OPEN_ALWAYS"} ELSE {})

\* variant of AfterAteSeek that leaves the file open when the seek failed
AfterAteSeekLeaking(s) == s.f

\* File::File, the FIL object after the seek to the end of an "ate" open
AfterAteSeek(s) == IF s.res # FR_OK THEN f_close(s.f) ELSE s.f

\* File::File(filename, mode)
Open ==
    /\ life = "unborn"
    /\ \E mode \in SUBSET OpenModes :
       \E o \in f_open(fatfs_mode(mode)) :
         /\ opened' = (o.res = FR_OK)
         /\ LET c1 == <<Call("f_open", fatfs_mode(mode), 0)>>
                done(ok, calls) ==
                    [Done("open", 0, ok, calls, o.res)
                     EXCEPT !.mode = mode, !.count = o.f.fsize]
            IN IF o.res = FR_OK /\ "ate" \in mode
               THEN \E s \in f_lseek(o.f, o.f.fsize) :
                      LET c2 == Append(c1, Call("f_lseek", {}, o.f.fsize))
                          g == AfterAteSeek(s)
                          closed == g.valid # s.f.valid
                      IN /\ err' = s.res
                         /\ f' = g
                         /\ closes' = closes + (IF closed THEN 1 ELSE 0)
                         /\ last' = [done(s.res = FR_OK,
                                          IF closed
                                          THEN Append(c2,
                                                      Call("f_close", {}, 0))
                                          ELSE c2)
                                     EXCEPT !.sres = s.res]
               ELSE /\ err' = o.res
                    /\ f' = o.f
                    /\ closes' = closes
                    /\ last' = done(o.res = FR_OK, c1)
    /\ life' = "live"
    /\ UNCHANGED <<allocVars, iterVars, spaceVars, incVars>>

\* File::~File
Destroy ==
    /\ life = "live"
    /\ life' = "dead"
    /\ f' = f_close(f)
    /\ closes' = closes + 1
    /\ last' = Done("destroy", 0, TRUE, <<Call("f_close", {}, 0)>>, "-")
    /\ UNCHANGED <<err, opened>>
    /\ UNCHANGED <<allocVars, iterVars, spaceVars, incVars>>

\* variant of ReadErr that keeps the driver's code on a short read
ReadErrDriverFirst(r, bytes_to_read) ==
    IF r.res = FR_OK /\ r.count # bytes_to_read THEN FR_EOF ELSE r.res

\* File::read, the error left by an f_read that answered r
ReadErr(r, bytes_to_read) ==
    IF r.count # bytes_to_read THEN FR_EOF ELSE r.res

\* File::read(data, bytes_to_read)
Read ==
    /\ life = "live"
    /\ \E bytes_to_read \in 0..MaxLen :
         IF err # FR_OK
         THEN /\ last' = Done("read", bytes_to_read, FALSE, <<>>, "-")
              /\ UNCHANGED <<err, f>>
         ELSE \E r \in f_read(f, bytes_to_read) :
                LET e == ReadErr(r, bytes_to_read)
                IN /\ err' = e
                   /\ f' = r.f
                   /\ last' = [Done("read", bytes_to_read, e = FR_OK,
                                    <<Call("f_read", {}, bytes_to_read)>>, r.res)
                               EXCEPT !.count = r.count]
    /\ UNCHANGED <<life, closes, opened>>
    /\ UNCHANGED <<allocVars, iterVars, spaceVars, incVars>>

\* File::write, the error left by an f_write that answered r
WriteErr(r, bytes_to_write) ==
    IF r.count # bytes_to_write THEN FR_DISK_FULL ELSE r.res

\* File::write(data, bytes_to_write)
Write ==
    /\ life = "live"
    /\ \E bytes_to_write \in 0..MaxLen :
         IF err # FR_OK
         THEN /\ last' = Done("write", bytes_to_write, FALSE, <<>>, "-")
              /\ UNCHANGED <<err, f>>
         ELSE \E r \in f_write(f, bytes_to_write) :
                LET e == WriteErr(r, bytes_to_write)
                IN /\ err' = e
                   /\ f' = r.f
                   /\ last' = [Done("write", bytes_to_write, e = FR_OK,
                                    <<Call("f_write", {}, bytes_to_write)>>, r.res)
                               EXCEPT !.count = r.count]
    /\ UNCHANGED <<life, closes, opened>>
    /\ UNCHANGED <<allocVars, iterVars, spaceVars, incVars>>

\* variant of SeekMismatch that compares in the driver's 32 bits
SeekMismatchTruncated(fptr, hi, lo) == fptr # lo

\* File::seek, the check of f_tell against new_position = hi * 2^32 + lo
SeekMismatch(fptr, hi, lo) == hi # 0 \/ fptr # lo

\* File::seek(new_position).  new_position is a uint64_t, hi * 2^32 + lo; the
\* driver's f_lseek takes a DWORD and so receives lo, while the comparison with
\* f_tell is made on the whole 64-bit value.
Seek ==
    /\ life = "live"
    /\ \E hi \in 0..1, lo \in 0..(MaxSize + 1) :
         IF err # FR_OK
         THEN /\ last' = [Done("seek", lo, FALSE, <<>>, "-") EXCEPT !.hi = hi]
              /\ UNCHANGED <<err, f, closes>>
         ELSE \E s \in f_lseek(f, lo) :
                LET old_position == f.fptr
                    failed == s.res # FR_OK
                    f1 == IF failed THEN f_close(s.f) ELSE s.f
                    c1 == <<Call("f_lseek", {}, lo)>>
                          \o (IF failed THEN <<Call("f_close", {}, 0)>>
                                        ELSE <<>>)
                    mismatch == SeekMismatch(f1.fptr, hi, lo)
                IN /\ err' = IF mismatch THEN FR_BAD_SEEK ELSE s.res
                   /\ f' = IF mismatch THEN f_close(f1) ELSE f1
                   /\ closes' = closes + (IF failed THEN 1 ELSE 0)
                                       + (IF mismatch THEN 1 ELSE 0)
                   /\ last' = [Done("seek", lo, FALSE,
                                    c1 \o (IF mismatch
                                           THEN <<Call("f_close", {}, 0)>>
                                           ELSE <<>>), s.res)
                               EXCEPT !.hi = hi, !.retpos = old_position,
                                      !.count = s.f.fptr]
    /\ UNCHANGED <<life, opened>>
    /\ UNCHANGED <<allocVars, iterVars, spaceVars, incVars>>

\* variant of PutsErr that records a complete f_puts as success
PutsErrClearing(result, len, e) == IF result # len THEN FR_DISK_FULL ELSE FR_OK

\* File::puts, the error left by an f_puts that returned result
PutsErr(result, len, e) == IF result # len THEN FR_DISK_FULL ELSE e

\* File::puts(string); len is string.size()
Puts ==
    /\ life = "live"
    /\ \E len \in 0..MaxLen :
       \E r \in f_puts(f, len) :
         /\ err' = PutsErr(r.result, len, err)
         /\ f' = r.f
         /\ last' = [Done("puts", len, r.result >= 0,
                          <<Call("f_puts", {}, len)>>, "-")
                     EXCEPT !.count = r.result]
    /\ UNCHANGED <<life, closes, opened>>
    /\ UNCHANGED <<allocVars, iterVars, spaceVars, incVars>>

\* variant of Sync without the check of err
SyncUngated ==
    /\ life = "live"
    /\ \E r \in f_sync(f) :
         /\ err' = r.res
         /\ f' = r.f
         /\ last' = Done("sync", 0, r.res = FR_OK,
                         <<Call("f_sync", {}, 0)>>, r.res)
    /\ UNCHANGED <<life, closes, opened>>
    /\ UNCHANGED <<allocVars, iterVars, spaceVars, incVars>>

\* File::sync()
Sync ==
    /\ life = "live"
    /\ IF err # FR_OK
       THEN /\ last' = Done("sync", 0, FALSE, <<>>, "-")
            /\ UNCHANGED <<err, f>>
       ELSE \E r \in f_sync(f) :
              /\ err' = r.res
              /\ f' = r.f
              /\ last' = Done("sync", 0, r.res = FR_OK,
                              <<Call("f_sync", {}, 0)>>, r.res)
    /\ UNCHANGED <<life, closes, opened>>
    /\ UNCHANGED <<allocVars, iterVars, spaceVars, incVars>>

(***************************************************************************)
(* Strings are sequences of characters; Code gives each character its      *)
(* value as a char, which is what the comparisons of the code compare.     *)
(***************************************************************************)
Code ==
    [c \in {"*", "-", ".", "0", "1", "2", "3", "4", "5", "6", "7", "8", "9",
            "?", "A", "B", "Z"} |->
        CASE c = "*" -> 42 [] c = "-" -> 45 [] c = "." -> 46
          [] c = "0" -> 48 [] c = "1" -> 49 [] c = "2" -> 50 [] c = "3" -> 51
          [] c = "4" -> 52 [] c = "5" -> 53 [] c = "6" -> 54 [] c = "7" -> 55
          [] c = "8" -> 56 [] c = "9" -> 57
          [] c = "?" -> 63 [] c = "A" -> 65 [] c = "B" -> 66 [] c = "Z" -> 90]

Chr(n) == CHOOSE c \in DOMAIN Code : Code[c] = n

\* std::string operator>: lexicographic on the characters' values
RECURSIVE GreaterFrom(_, _, _)
GreaterFrom(a, b, i) ==
    IF i > Len(a) THEN FALSE
    ELSE IF i > Len(b) THEN TRUE
    ELSE IF Code[a[i]] > Code[b[i]] THEN TRUE
    ELSE IF Code[a[i]] < Code[b[i]] THEN FALSE
    ELSE GreaterFrom(a, b, i + 1)

StrGreater(a, b) == GreaterFrom(a, b, 1)

(***************************************************************************)
(* The FatFs driver, directory search.  A directory is a sequence of       *)
(* entries [fname, fattrib], in the order the driver enumerates them.      *)
(***************************************************************************)
\* the driver's wildcard match of name[j..] against wild[i..]:
\* '?' is any one character, '*' any run of characters
RECURSIVE MatchFrom(_, _, _, _)
MatchFrom(wild, i, name, j) ==
    IF i > Len(wild) THEN j > Len(name)
    ELSE IF wild[i] = "*"
    THEN \E k \in j..(Len(name) + 1) : MatchFrom(wild, i + 1, name, k)
    ELSE /\ j <= Len(name)
         /\ wild[i] = "?" \/ wild[i] = name[j]
         /\ MatchFrom(wild, i + 1, name, j + 1)

Matches(wild, name) == MatchFrom(wild, 1, name, 1)

\* index of the first entry at or after k whose name matches, 0 when none
FindFrom(d, wild, k) ==
    LET hits == {i \in k..Len(d) : Matches(wild, d[i].fname)}
    IN IF hits = {} THEN 0 ELSE CHOOSE i \in hits : \A j \in hits : i <= j

\* directory_iterator::Impl behind the shared_ptr: live is "impl is not null",
\* cursor the driver's place in the directory, fname/fattrib the FILINFO
NullImpl == [live |-> FALSE, cursor |-> 0, fname |-> <<>>, fattrib |-> {}]

\* the search from entry k on: the next match, or success with an empty name
\* when nothing more matches, or a failure code
Search(d, wild, k, old) ==
    LET i == FindFrom(d, wild, k)
    IN {IF i = 0
        THEN [res |-> FR_OK, cursor |-> Len(d) + 1, fname |-> <<>>,
              fattrib |-> old.fattrib]
        ELSE [res |-> FR_OK, cursor |-> i, fname |-> d[i].fname,
              fattrib |-> d[i].fattrib]}
       \cup {[res |-> "FR_DISK_ERR", cursor |-> old.cursor,
              fname |-> old.fname, fattrib |-> old.fattrib]}

f_findfirst(d, wild) == Search(d, wild, 1, NullImpl)

f_findnext(d, wild, im) == Search(d, wild, im.cursor + 1, im)

(***************************************************************************)
(* std::filesystem::directory_iterator                                     *)
(***************************************************************************)
\* directory_iterator::directory_iterator(path, wild), for one driver outcome
IterNew(r) ==
    IF r.res # FR_OK
    THEN NullImpl
    ELSE [live |-> TRUE, cursor |-> r.cursor, fname |-> r.fname,
          fattrib |-> r.fattrib]

\* directory_iterator::operator++, for one driver outcome
IterNext(r) ==
    IF r.res # FR_OK \/ r.fname = <<>>
    THEN NullImpl
    ELSE [live |-> TRUE, cursor |-> r.cursor, fname |-> r.fname,
          fattrib |-> r.fattrib]

\* operator!= against end(): an iterator differs from the exhausted one
\* exactly when it holds an impl
NotEnd(im) == im.live

\* variant of is_regular_file that takes a directory for a file
is_regular_fileAny(st) == TRUE

\* std::filesystem::is_regular_file(status)
is_regular_file(st) == "AM_DIR" \notin st

(***************************************************************************)
(* The sequential filename allocator.                                      *)
(***************************************************************************)
\* variant of LastMatchAfter that keeps the file enumerated last
LastMatchAfterLatest(lm, entry) ==
    IF is_regular_file(entry.fattrib) THEN entry.fname ELSE lm

\* the body of the loop of find_last_file_matching_pattern for one entry
LastMatchAfter(lm, entry) ==
    IF is_regular_file(entry.fattrib) /\ StrGreater(entry.fname, lm)
    THEN entry.fname
    ELSE lm

\* remove_filename_extension: substr(0, find_last_of('.')), the whole string
\* when there is no '.'
remove_filename_extension(filename) ==
    LET dots == {i \in 1..Len(filename) : filename[i] = "."}
    IN IF dots = {}
       THEN filename
       ELSE SubSeq(filename, 1,
                   (CHOOSE i \in dots : \A j \in dots : j <= i) - 1)

\* the loop of increment_filename_stem_ordinal, at character i from the left
\* (the reverse iterator runs from the last character to the first)
RECURSIVE IncrementFrom(_, _)
IncrementFrom(result, i) ==
    IF i = 0 THEN result
    ELSE LET c == result[i]
         IN IF Code[c] < Code["0"] THEN <<>>
            ELSE IF Code[c] < Code["9"]
            THEN [result EXCEPT ![i] = Chr(Code[c] + 1)]
            ELSE IF c = "9"
            THEN IncrementFrom([result EXCEPT ![i] = "0"], i - 1)
            ELSE <<>>

\* variant of the loop that ends the carry at the first character that is no
\* digit and returns the stem as it then is
RECURSIVE IncrementWrapFrom(_, _)
IncrementWrapFrom(result, i) ==
    IF i = 0 THEN result
    ELSE LET c == result[i]
         IN IF Code[c] < Code["0"] THEN result
            ELSE IF Code[c] < Code["9"]
            THEN [result EXCEPT ![i] = Chr(Code[c] + 1)]
            ELSE IF c = "9"
            THEN IncrementWrapFrom([result EXCEPT ![i] = "0"], i - 1)
            ELSE result

increment_wrapping(filename_stem) ==
    IncrementWrapFrom(filename_stem, Len(filename_stem))

increment_filename_stem_ordinal(filename_stem) ==
    IncrementFrom(filename_stem, Len(filename_stem))

\* std::replace(begin, end, '?', '0')
ReplaceMarks(str) == [i \in 1..Len(str) |-> IF str[i] = "?" THEN "0" ELSE str[i]]

\* next_filename_stem_matching_pattern, from the filename the search returned
StemAfter(filename_stem_pattern, filename) ==
    LET filename_stem == remove_filename_extension(filename)
    IN IF filename_stem = <<>>
       THEN ReplaceMarks(filename_stem_pattern)
       ELSE increment_filename_stem_ordinal(filename_stem)

\* the pattern handed to the directory search: filename_stem_pattern + ".*"
Wild(filename_stem_pattern) == filename_stem_pattern \o <<".", "*">>

\* find_last_file_matching_pattern: last_match is empty, the range-for
\* constructs its directory_iterator
FindBegin ==
    /\ apc = "idle"
    /\ \E r \in f_findfirst(dir, Wild(pattern)) :
         /\ impl' = IterNew(r)
         /\ drv_failed' = (r.res # FR_OK)
    /\ last_match' = <<>>
    /\ stem' = <<>>
    /\ apc' = "loop"
    /\ UNCHANGED <<dir, pattern>>
    /\ UNCHANGED <<fileVars, iterVars, spaceVars, incVars>>

\* one round of the range-for: the body on the current entry, then operator++
FindStep ==
    /\ apc = "loop"
    /\ NotEnd(impl)
    /\ last_match' = LastMatchAfter(last_match, impl)
    /\ \E r \in f_findnext(dir, Wild(pattern), impl) :
         /\ impl' = IterNext(r)
         /\ drv_failed' = (drv_failed \/ r.res # FR_OK)
    /\ UNCHANGED <<dir, pattern, apc, stem>>
    /\ UNCHANGED <<fileVars, iterVars, spaceVars, incVars>>

\* the range-for ends; next_filename_stem_matching_pattern returns
NextStem ==
    /\ apc = "loop"
    /\ ~NotEnd(impl)
    /\ stem' = StemAfter(pattern, last_match)
    /\ apc' = "done"
    /\ UNCHANGED <<dir, pattern, impl, last_match, drv_failed>>
    /\ UNCHANGED <<fileVars, iterVars, spaceVars, incVars>>

\* the caller creates <stem>.B, which the medium files at any place of the
\* directory; a name already there is opened, not added
Create ==
    /\ apc = "done"
    /\ stem # <<>>
    /\ LET name == stem \o <<".", "B">>
       IN IF \E i \in 1..Len(dir) : dir[i].fname = name
          THEN dir' = dir
          ELSE /\ Len(dir) < MaxEntries
               /\ \E k \in 0..Len(dir) :
                    dir' = SubSeq(dir, 1, k)
                           \o <<[fname |-> name, fattrib |-> {}]>>
                           \o SubSeq(dir, k + 1, Len(dir))
    /\ apc' = "idle"
    /\ UNCHANGED <<pattern, impl, last_match, drv_failed, stem>>
    /\ UNCHANGED <<fileVars, iterVars, spaceVars, incVars>>

(***************************************************************************)
(* The directories and patterns the allocator is run on.                   *)
(***************************************************************************)
Digits == {"0", "1", "2", "3", "4", "5", "6", "7", "8", "9"}

Fields == {<<a, b>> : a \in {"8", "9"}, b \in {"8", "9"}}

Stems ==
    {<<"A">> \o d : d \in Fields} \cup Fields
    \cup {<<"A", "-", "9">>, <<"A", "9", "A">>, <<"B", "9", "9">>}

Names ==
    {s \o <<".", "B">> : s \in Stems} \cup {<<"A", "8", "9", ".", "Z">>}

\* every name as a regular file, the two greatest also as a subdirectory
Entries ==
    [fname : Names, fattrib : {{}}]
    \cup [fname : {<<"A", "9", "9", ".", "B">>, <<"9", "9", ".", "B">>},
          fattrib : {{"AM_DIR"}}]

Directories ==
    UNION {{d \in [1..n -> Entries] :
              \A i, j \in 1..n : i # j => d[i].fname # d[j].fname} :
           n \in 0..MaxEntries}

Patterns == {<<"A", "?", "?">>, <<"?", "?">>}

\* the directories the iterators are run on
IterEntries ==
    {e \in Entries :
        e.fname \in {<<"A", "8", "8", ".", "B">>, <<"A", "9", "9", ".", "B">>,
                     <<"A", "8", "9", ".", "Z">>, <<"9", "9", ".", "B">>,
                     <<"B", "9", "9", ".", "B">>}}

IterDirectories ==
    {d \in Directories : \A i \in 1..Len(d) : d[i] \in IterEntries}

(***************************************************************************)
(* directory_iterator objects and their copies.  it[x] is "none" before    *)
(* object x exists, "null" when its impl is empty (the iterator is         *)
(* exhausted) and "impl" when it holds the Impl; a copy holds the same     *)
(* Impl as its original.  obj is that Impl, obj.live telling whether it    *)
(* still exists: it is destroyed with the last shared_ptr that holds it.   *)
(***************************************************************************)
NoLog ==
    [op |-> "none", who |-> "a", res |-> "-", pre |-> "none",
     pre_other |-> "none", pre_obj |-> NullImpl, deref_null |-> FALSE]

Other(x) == IF x = "a" THEN "b" ELSE "a"

\* variant of SharedAfter in which operator++ works on an Impl of its own
SharedAfterPrivate(r, old) == old

\* the Impl after f_findnext(&impl->dir, &impl->filinfo) answered r: the
\* driver writes its search place and the entry into the Impl itself
SharedAfter(r, old) ==
    [live |-> TRUE, cursor |-> r.cursor, fname |-> r.fname,
     fattrib |-> r.fattrib]

\* directory_iterator::directory_iterator(path, wild) for object a
IterBegin ==
    /\ ~trap
    /\ it["a"] = "none"
    /\ \E r \in f_findfirst(dir, Wild(pattern)) :
         LET n == IterNew(r)
         IN /\ it' = [it EXCEPT !["a"] = IF NotEnd(n) THEN "impl" ELSE "null"]
            /\ obj' = n
            /\ itfail' = (r.res # FR_OK)
            /\ itlog' = [NoLog EXCEPT !.op = "begin", !.res = r.res]
    /\ nadv' = 0
    /\ UNCHANGED trap
    /\ UNCHANGED <<fileVars, allocVars, spaceVars, incVars>>

\* the copy constructor: b becomes a copy of a
IterCopy ==
    /\ ~trap
    /\ it["a"] # "none"
    /\ it["b"] = "none"
    /\ it' = [it EXCEPT !["b"] = it["a"]]
    /\ itlog' = [NoLog EXCEPT !.op = "copy", !.pre = it["a"], !.pre_obj = obj]
    /\ UNCHANGED <<obj, nadv, itfail, trap>>
    /\ UNCHANGED <<fileVars, allocVars, spaceVars, incVars>>

\* directory_iterator::operator++ on object x.  With an empty impl the call
\* reads and writes through a null pointer: the processor traps or the call
\* goes on, and impl is empty afterwards as before.
IterAdvance ==
    /\ ~trap
    /\ \E x \in {"a", "b"} :
         /\ it[x] # "none"
         /\ x = "a" => nadv <= MaxEntries
         /\ nadv' = IF x = "a" THEN nadv + 1 ELSE nadv
         /\ LET log == [NoLog EXCEPT !.op = "advance", !.who = x,
                                     !.pre = it[x], !.pre_other = it[Other(x)],
                                     !.pre_obj = obj]
            IN IF it[x] = "impl"
               THEN \E r \in f_findnext(dir, Wild(pattern), obj) :
                      LET it2 == [it EXCEPT ![x] = IF NotEnd(IterNext(r))
                                                   THEN "impl" ELSE "null"]
                      IN /\ it' = it2
                         /\ obj' = IF \E y \in {"a", "b"} : it2[y] = "impl"
                                   THEN SharedAfter(r, obj)
                                   ELSE NullImpl
                         /\ itfail' = (itfail \/ r.res # FR_OK)
                         /\ itlog' = [log EXCEPT !.res = r.res]
                         /\ UNCHANGED trap
               ELSE /\ trap' \in BOOLEAN
                    /\ itlog' = [log EXCEPT !.deref_null = TRUE]
                    /\ UNCHANGED <<it, obj, itfail>>
    /\ UNCHANGED <<fileVars, allocVars, spaceVars, incVars>>

(***************************************************************************)
(* std::filesystem::space.  The driver counts in DWORDs, 32 bits; a number *)
(* is kept here as three 16-bit limbs, least significant first, so that    *)
(* the 32-bit product and the exact product can both be written.           *)
(***************************************************************************)
Limb == 65536
MIN_SS == 512

\* n < 2^31 as limbs
Limbs(n) == <<n % Limb, n \div Limb, 0>>

\* x * k for a factor k below 2^15, exact up to 48 bits
Times(x, k) ==
    LET t1 == x[1] * k
        t2 == x[2] * k + (t1 \div Limb)
        t3 == x[3] * k + (t2 \div Limb)
    IN <<t1 % Limb, t2 % Limb, t3 % Limb>>

\* a value cut to the width of a DWORD
DWord(x) == <<x[1], x[2], 0>>

\* clusters * fs->csize * _MIN_SS, each product a DWORD
Bytes(clusters, csize) ==
    DWord(Times(DWord(Times(Limbs(clusters), csize)), MIN_SS))

Zero == <<0, 0, 0>>

NoInfo == [done |-> FALSE, capacity |-> Zero, free |-> Zero, available |-> Zero]

\* space(p)
Query ==
    /\ ~info.done
    /\ info' = IF geo.ok
               THEN [done |-> TRUE,
                     capacity |-> Bytes(geo.n_fatent - 2, geo.csize),
                     free |-> Bytes(geo.free_clusters, geo.csize),
                     available |-> Bytes(geo.free_clusters, geo.csize)]
               ELSE [done |-> TRUE, capacity |-> Zero, free |-> Zero,
                     available |-> Zero]
    /\ UNCHANGED geo
    /\ UNCHANGED <<fileVars, allocVars, iterVars, incVars>>

\* the volumes: FAT entries, sectors per cluster, free clusters, and whether
\* f_getfree succeeds
Volumes ==
    {g \in [ok : BOOLEAN,
            n_fatent : {3, 4, 5, 4097, 65537, 65538, 65539, 1048578},
            csize : {1, 2, 8, 64, 128},
            free_clusters : {0, 1, 2, 4095, 65536, 1048576}] :
        g.free_clusters = 0 \/ g.free_clusters = 1
        \/ g.free_clusters = g.n_fatent - 2}

(***************************************************************************)
(* increment_filename_stem_ordinal on its own.                             *)
(***************************************************************************)
\* greatest length of a stem handed to increment_filename_stem_ordinal
MaxStem == 3

StemChars == {"-", "0", "8", "9", "A"}

\* the stems: never empty, next_filename_stem_matching_pattern increments
\* only a stem that is not empty
StemInputs == UNION {[1..n -> StemChars] : n \in 1..MaxStem}

NoOut == [done |-> FALSE, val |-> <<>>]

Increment ==
    /\ ~inc_out.done
    /\ inc_out' = [done |-> TRUE,
                   val |-> increment_filename_stem_ordinal(inc_in)]
    /\ UNCHANGED inc_in
    /\ UNCHANGED <<fileVars, allocVars, iterVars, spaceVars>>

(***************************************************************************)
(* Specifications.                                                         *)
(***************************************************************************)
FileIdle ==
    /\ life = "unborn"
    /\ err = FR_OK
    /\ f = NoFile
    /\ last = NoCall
    /\ closes = 0
    /\ opened = FALSE

AllocIdle ==
    /\ apc = "idle"
    /\ impl = NullImpl
    /\ last_match = <<>>
    /\ drv_failed = FALSE
    /\ stem = <<>>

IterIdle ==
    /\ it = [x \in {"a", "b"} |-> "none"]
    /\ obj = NullImpl
    /\ itlog = NoLog
    /\ nadv = 0
    /\ itfail = FALSE
    /\ trap = FALSE

SpaceIdle ==
    /\ geo = [ok |-> TRUE, n_fatent |-> 3, csize |-> 1, free_clusters |-> 0]
    /\ info = NoInfo

IncIdle ==
    /\ inc_in = <<"0">>
    /\ inc_out = NoOut

\* one File handle, from before its construction to its destruction
Init ==
    /\ FileIdle
    /\ AllocIdle
    /\ IterIdle
    /\ SpaceIdle
    /\ IncIdle
    /\ dir = <<>>
    /\ pattern = <<"A", "?", "?">>

Next == Open \/ Read \/ Write \/ Seek \/ Puts \/ Sync \/ Destroy

Spec == Init /\ [][Next]_vars

\* the allocator, on every directory and pattern of the bounds
InitAlloc ==
    /\ FileIdle
    /\ AllocIdle
    /\ IterIdle
    /\ SpaceIdle
    /\ IncIdle
    /\ dir \in Directories
    /\ pattern \in Patterns

NextAlloc == FindBegin \/ FindStep \/ NextStem \/ Create

SpecAlloc == InitAlloc /\ [][NextAlloc]_vars

\* directory iterators and a copy, on every directory and pattern
InitIter ==
    /\ FileIdle
    /\ AllocIdle
    /\ IterIdle
    /\ SpaceIdle
    /\ IncIdle
    /\ dir \in IterDirectories
    /\ pattern \in Patterns

NextIter == IterBegin \/ IterCopy \/ IterAdvance

SpecIter == InitIter /\ [][NextIter]_vars

\* space() on every volume
InitSpace ==
    /\ FileIdle
    /\ AllocIdle
    /\ IterIdle
    /\ IncIdle
    /\ dir = <<>>
    /\ pattern = <<"A", "?", "?">>
    /\ geo \in Volumes
    /\ info = NoInfo

NextSpace == Query

SpecSpace == InitSpace /\ [][NextSpace]_vars

\* increment_filename_stem_ordinal on every stem
InitInc ==
    /\ FileIdle
    /\ AllocIdle
    /\ IterIdle
    /\ SpaceIdle
    /\ dir = <<>>
    /\ pattern = <<"A", "?", "?">>
    /\ inc_in \in StemInputs
    /\ inc_out = NoOut

NextInc == Increment

SpecInc == InitInc /\ [][NextInc]_vars

(***************************************************************************)
(* Properties of the File handle, under Spec.                              *)
(***************************************************************************)
GatedOps == {"read", "write", "seek", "sync"}
HandleOps == GatedOps \cup {"puts"}

\* C1: once the handle's error code is not FR_OK, no call of read, write,
\* seek, sync or puts (nor the destructor) makes it FR_OK again.
C1_StickyError == [][err # FR_OK => err' # FR_OK]_vars

\* a complete puts on a handle that had failed: the error is still set
C1_Witness ==
    /\ last.op = "puts"
    /\ last.pre_err # FR_OK
    /\ last.count = last.n
    /\ err # FR_OK

\* C2: read, write, sync or seek called with the error code set makes no
\* driver call, leaves the error code, the position and the FIL object as
\* they were, and returns false (seek: 0).
C2_NoOpAfterFailure ==
    (last.op \in GatedOps /\ last.pre_err # FR_OK) =>
        /\ last.calls = <<>>
        /\ err = last.pre_err
        /\ f = last.pre_f
        /\ last.retb = FALSE
        /\ last.retpos = 0

\* a sync on a failed handle whose file is still open
C2_Witness ==
    /\ last.op = "sync"
    /\ last.pre_err # FR_OK
    /\ last.pre_f.valid

\* C3: once the error code is some kind K other than FR_OK, no later read,
\* write, seek, sync or puts changes it, and each of them reports failure.
C3_ErrorKindTerminal ==
    (last.op \in HandleOps /\ last.pre_err # FR_OK) =>
        /\ err = last.pre_err
        /\ last.retb = FALSE
        /\ last.retpos = 0

\* C4: the constructor hands f_open exactly FA_READ for in, FA_WRITE for out,
\* FA_CREATE_ALWAYS for trunc and FA_OPEN_ALWAYS for ate, and its next driver
\* call is f_lseek to the file's size exactly when ate is set and f_open
\* succeeded; otherwise it makes no f_lseek.
C4_OpenFlagMapping ==
    last.op = "open" =>
        LET flags == last.calls[1].flags
            seeks == {i \in DOMAIN last.calls : last.calls[i].fn = "f_lseek"}
        IN /\ last.calls[1].fn = "f_open"
           /\ flags \subseteq
                {"FA_READ", "FA_WRITE", "FA_CREATE_ALWAYS", "FA_OPEN_ALWAYS"}
           /\ "FA_READ" \in flags <=> "in" \in last.mode
           /\ "FA_WRITE" \in flags <=> "out" \in last.mode
           /\ "FA_CREATE_ALWAYS" \in flags <=> "trunc" \in last.mode
           /\ "FA_OPEN_ALWAYS" \in flags <=> "ate" \in last.mode
           /\ IF "ate" \in last.mode /\ last.res = FR_OK
              THEN seeks = {2} /\ last.calls[2].n = last.count
              ELSE seeks = {}

\* an open with trunc and ate together that succeeded on a file
C4_Witness ==
    /\ last.op = "open"
    /\ last.mode = {"in", "out", "trunc", "ate"}
    /\ err = FR_OK
    /\ Len(last.calls) = 2

\* C5: when the constructor returns with the error code set, the file is not
\* open, and if f_open had succeeded (the ate case) the error code is the
\* code the seek returned; when it returns with FR_OK the file is open.
C5_FailedOpenNotOpen ==
    last.op = "open" =>
        /\ err # FR_OK => ~f.valid
        /\ err = FR_OK => f.valid
        /\ (err # FR_OK /\ last.res = FR_OK) =>
              /\ "ate" \in last.mode
              /\ last.sres # FR_OK
              /\ err = last.sres
              /\ last.calls[Len(last.calls)].fn = "f_close"

\* an ate open whose f_open succeeded and whose seek failed
C5_Witness ==
    /\ last.op = "open"
    /\ "ate" \in last.mode
    /\ last.res = FR_OK
    /\ err = "FR_DISK_ERR"

\* C6: read (write) on a handle without error returns true exactly when the
\* driver returned FR_OK and transferred the requested count; a different
\* count leaves FR_EOF (FR_DISK_FULL) whatever the driver returned, the
\* requested count leaves the driver's result.
C6_ShortTransfer ==
    (last.op \in {"read", "write"} /\ last.pre_err = FR_OK) =>
        /\ last.retb <=> (last.res = FR_OK /\ last.count = last.n)
        /\ last.count # last.n =>
              err = (IF last.op = "read" THEN FR_EOF ELSE FR_DISK_FULL)
        /\ last.count = last.n => err = last.res

\* a read the driver failed and cut short: the error is FR_EOF
C6_Witness ==
    /\ last.op = "read"
    /\ last.pre_err = FR_OK
    /\ last.res = "FR_DISK_ERR"
    /\ last.count < last.n
    /\ err = FR_EOF

\* C7: after seek on a handle without error, either the error is FR_OK, the
\* file is open and its position is the requested offset, or the error is
\* set and the file is closed; a seek the driver reports done at another
\* position leaves FR_BAD_SEEK and the file closed.
C7_SeekPostCondition ==
    (last.op = "seek" /\ last.pre_err = FR_OK) =>
        /\ \/ err = FR_OK /\ f.valid /\ last.hi = 0 /\ f.fptr = last.n
           \/ err # FR_OK /\ ~f.valid
        /\ (last.res = FR_OK /\ (last.hi # 0 \/ f.fptr # last.n)) =>
              err = FR_BAD_SEEK /\ ~f.valid

\* a seek below 2^32 that the driver clamped and reported done
C7_Witness ==
    /\ last.op = "seek"
    /\ last.pre_err = FR_OK
    /\ last.res = FR_OK
    /\ last.hi = 0
    /\ f.fptr # last.n
    /\ err = FR_BAD_SEEK

(***************************************************************************)
(* Properties of the filename allocator, under SpecAlloc.                  *)
(***************************************************************************)
\* the names of the regular files of d that match pat + ".*"
MatchingFiles(d, pat) ==
    {d[i].fname : i \in {j \in 1..Len(d) :
        Matches(Wild(pat), d[j].fname) /\ "AM_DIR" \notin d[j].fattrib}}

\* a name is prefix p, then w decimal digits, then '.' and an extension
HasShape(name, p, w) ==
    LET k == Len(p) + w + 1
    IN /\ Len(name) >= k
       /\ SubSeq(name, 1, Len(p)) = p
       /\ \A i \in (Len(p) + 1)..(k - 1) : name[i] \in Digits
       /\ name[k] = "."
       /\ \A i \in (k + 1)..Len(name) : name[i] # "."

\* the characters of a name before its first digit or '.'
LeadingPrefix(name) ==
    LET stops == {i \in 1..Len(name) : name[i] \in Digits \cup {"."}}
    IN IF stops = {} THEN name
       ELSE SubSeq(name, 1, (CHOOSE i \in stops : \A j \in stops : i <= j) - 1)

\* the number of digits of a name between its prefix and its first '.'
FieldWidth(name) ==
    LET dots == {i \in 1..Len(name) : name[i] = "."}
    IN IF dots = {} THEN 0
       ELSE (CHOOSE i \in dots : \A j \in dots : i <= j) - 1
            - Len(LeadingPrefix(name))

RECURSIVE Pow10(_)
Pow10(w) == IF w = 0 THEN 1 ELSE 10 * Pow10(w - 1)

\* the ordinal written in the w digits that follow the first pl characters
Ordinal(name, pl, w) ==
    LET RECURSIVE val(_)
        val(k) == IF k = 0 THEN 0
                  ELSE 10 * val(k - 1) + (Code[name[pl + k]] - Code["0"])
    IN val(w)

\* n written in w decimal digits, zero-padded
Numeral(n, w) ==
    [i \in 1..w |-> Chr(Code["0"] + ((n \div Pow10(w - i)) % 10))]

\* the greatest ordinal among the names of a set that has the shape p, w
MaxOrdinal(names, p, w) ==
    LET ords == {Ordinal(n, Len(p), w) : n \in names}
    IN CHOOSE m \in ords : \A o \in ords : o <= m

\* the directory holds a matching regular file, and the matching regular
\* files are all named p, then w >= 1 digits, then an extension
SharedShape(d, pat, p, w) ==
    /\ MatchingFiles(d, pat) # {}
    /\ w >= 1
    /\ \A i \in 1..Len(p) : p[i] \notin Digits
    /\ \A n \in MatchingFiles(d, pat) : HasShape(n, p, w)

C9_FirstEverFile ==
    (apc = "done" /\ MatchingFiles(dir, pattern) = {}) =>
        /\ Len(stem) = Len(pattern)
        /\ \A i \in 1..Len(pattern) :
              stem[i] = (IF pattern[i] = "?" THEN "0" ELSE pattern[i])

\* the empty directory, f_findfirst having answered FR_OK with an empty name
C9_Witness ==
    /\ apc = "done"
    /\ dir = <<>>
    /\ ~drv_failed
    /\ pattern = <<"A", "?", "?">>
    /\ stem = <<"A", "0", "0">>

\* the greatest name of a set of names, as std::string compares
Greatest(names) == CHOOSE n \in names : \A o \in names : ~StrGreater(o, n)

\* the part of a name before its last '.'
BeforeLastDot(name) ==
    LET dots == {i \in 1..Len(name) : name[i] = "."}
    IN IF dots = {} THEN name
       ELSE SubSeq(name, 1, (CHOOSE i \in dots : \A j \in dots : j <= i) - 1)

\* the length of the run of digits that ends a stem
DigitRun(s) ==
    LET runs == {k \in 0..Len(s) :
                    \A i \in (Len(s) - k + 1)..Len(s) : s[i] \in Digits}
    IN CHOOSE k \in runs : \A j \in runs : j <= k

\* the stem of the greatest matching regular file ends in a field of w >= 1
\* digits that are all '9'
AtMaximum(d, pat) ==
    /\ MatchingFiles(d, pat) # {}
    /\ LET s == BeforeLastDot(Greatest(MatchingFiles(d, pat)))
       IN /\ DigitRun(s) >= 1
          /\ \A i \in (Len(s) - DigitRun(s) + 1)..Len(s) : s[i] = "9"

MatchingStems(d, pat) == {BeforeLastDot(n) : n \in MatchingFiles(d, pat)}

\* the matching regular files of d, if any, share one prefix without digits
\* and one digit width
OneShape(d, pat) ==
    MatchingFiles(d, pat) # {} =>
        LET some == CHOOSE n \in MatchingFiles(d, pat) : TRUE
        IN SharedShape(d, pat, LeadingPrefix(some), FieldWidth(some))

\* C11: in every sequence of calls of the allocator, each followed by the
\* creation of <stem>.<ext>, on directories whose matching names share one
\* prefix and one digit width, a returned stem that is not empty is the stem
\* of no matching file present at the call.
C11_NoCollision ==
    (apc = "done" /\ stem # <<>> /\ OneShape(dir, pattern)) =>
        stem \notin MatchingStems(dir, pattern)

\* the same with a directory search that never fails: it is violated too,
\* by the wrap of an all-digit stem at its maximum
C11_NoCollisionSoundDriver ==
    (apc = "done" /\ stem # <<>> /\ ~drv_failed /\ OneShape(dir, pattern)) =>
        stem \notin MatchingStems(dir, pattern)

(***************************************************************************)
(* Properties of the directory iterators, under SpecIter.                  *)
(***************************************************************************)
\* the places of the entries of d, of any kind, whose names match pat + ".*"
MatchingPlaces(d, pat) == {i \in 1..Len(d) : Matches(Wild(pat), d[i].fname)}

\* C12: a directory_iterator constructed when no entry matches, or when
\* f_findfirst fails, is exhausted: its impl is empty and the Impl released;
\* so too when f_findfirst answers FR_OK with an empty name.
C12_BeginOnNoMatchExhausted ==
    (itlog.op = "begin"
     /\ (itlog.res # FR_OK \/ MatchingPlaces(dir, pattern) = {})) =>
        it["a"] = "null" /\ ~obj.live

\* C13: with N matching entries and a driver that never fails, an iterator
\* that has no copy is exhausted after N calls of operator++ and after no
\* smaller number of calls.
C13_EnumerationLength ==
    LET N == Cardinality(MatchingPlaces(dir, pattern))
    IN (it["a"] # "none" /\ it["b"] = "none" /\ ~itfail /\ nadv <= N) =>
          (it["a"] = "null" <=> nadv = N)

\* C18: operator++ on an exhausted iterator leaves it exhausted and makes no
\* access through the impl it has released.
C18_ExhaustionSafe ==
    (itlog.op = "advance" /\ itlog.pre = "null") =>
        it[itlog.who] = "null" /\ ~itlog.deref_null

\* C19 as stated: operator++ on one of two copies that both hold the Impl
\* leaves the entry seen through the other copy, and whether that copy is
\* exhausted, as they were.
C19_CopiesKeepEntry ==
    (itlog.op = "advance" /\ itlog.pre = "impl" /\ itlog.pre_other = "impl") =>
        /\ it[Other(itlog.who)] = itlog.pre_other
        /\ obj.fname = itlog.pre_obj.fname
        /\ obj.fattrib = itlog.pre_obj.fattrib

\* C19, amended: operator++ on one of two copies that both hold the Impl
\* leaves the other copy not exhausted, and when f_findnext succeeds the
\* entry seen through the other copy is the entry the call moved to: the
\* next matching entry, or an empty name when there is none.
C19_CopiesShareEntry ==
    (itlog.op = "advance" /\ itlog.pre = "impl" /\ itlog.pre_other = "impl") =>
        /\ it[Other(itlog.who)] = itlog.pre_other
        /\ obj.live
        /\ itlog.res = FR_OK =>
              LET later == {i \in MatchingPlaces(dir, pattern) :
                               i > itlog.pre_obj.cursor}
              IN IF later = {}
                 THEN obj.fname = <<>>
                 ELSE LET i == CHOOSE k \in later : \A j \in later : k <= j
                      IN /\ obj.fname = dir[i].fname
                         /\ obj.fattrib = dir[i].fattrib

\* a advanced to another entry, and b, its copy, now shows that entry
C19_Witness ==
    /\ itlog.op = "advance"
    /\ itlog.who = "a"
    /\ itlog.pre = "impl"
    /\ itlog.pre_other = "impl"
    /\ itlog.res = FR_OK
    /\ it["b"] = "impl"
    /\ obj.fname # <<>>
    /\ obj.fname # itlog.pre_obj.fname

(***************************************************************************)
(* Properties of space, under SpecSpace.                                   *)
(***************************************************************************)
\* clusters * csize * sector size as an exact count of bytes
ExactBytes(clusters, csize) ==
    Times(Times(Limbs(clusters), csize), MIN_SS)

\* C14: when f_getfree succeeds, space returns the exact byte counts
\* capacity = (n_fatent - 2) * csize * sector size and free = available =
\* free clusters * csize * sector size, so on a volume with at least one
\* data cluster and no free cluster free is 0 and capacity is above 0.
C14_ExactByteCounts ==
    (info.done /\ geo.ok /\ geo.n_fatent >= 3) =>
        /\ info.capacity = ExactBytes(geo.n_fatent - 2, geo.csize)
        /\ info.free = ExactBytes(geo.free_clusters, geo.csize)
        /\ info.available = info.free
        /\ geo.free_clusters = 0 => (info.free = Zero /\ info.capacity # Zero)

\* the part of C14 about a full volume alone
C14_FullVolumeHasCapacity ==
    (info.done /\ geo.ok /\ geo.n_fatent >= 3 /\ geo.free_clusters = 0) =>
        (info.free = Zero /\ info.capacity # Zero)

(***************************************************************************)
(* Further properties of the File handle, under Spec.                      *)
(***************************************************************************)
\* C15: every call of read, write, sync or puts returns true exactly when
\* the error code is FR_OK right after the call.
C15_ResultAgreesWithError ==
    last.op \in {"read", "write", "sync", "puts"} =>
        (last.retb <=> err = FR_OK)

\* the driver's operations that transfer through a FIL object
TransferCalls == {"f_read", "f_write", "f_puts", "f_sync", "f_lseek"}

\* C16: once the FIL object of an opened handle has been closed, by the
\* constructor's failed ate seek or by seek, no later read, write, seek,
\* sync or puts hands it to f_read, f_write, f_puts, f_sync or f_lseek.
C16_NoTransferAfterRelease ==
    (last.op \in HandleOps /\ opened /\ ~last.pre_f.valid) =>
        \A i \in 1..Len(last.calls) : last.calls[i].fn \notin TransferCalls

\* C17: over the life of a handle f_close is called exactly once when
\* f_open returned FR_OK and never when f_open failed; it is never called
\* a second time.
C17_ClosedExactlyOnce ==
    /\ closes <= (IF opened THEN 1 ELSE 0)
    /\ life = "dead" => closes = (IF opened THEN 1 ELSE 0)

\* the part of C17 about a handle whose f_open failed
C17_NeverClosedUnopened == (life # "unborn" /\ ~opened) => closes = 0

\* the part of C17 about a second f_close
C17_NoSecondClose == closes <= 1

(***************************************************************************)
(* Properties of increment_filename_stem_ordinal, under SpecInc.           *)
(***************************************************************************)
\* the place left of the trailing run of '9's of s, 0 when s is all '9's
LeftOfNines(s) ==
    LET runs == {k \in 0..Len(s) :
                    \A j \in (Len(s) - k + 1)..Len(s) : s[j] = "9"}
        k == CHOOSE m \in runs : \A r \in runs : r <= m
    IN Len(s) - k

\* scanning s from the right meets a character that is no digit before it
\* meets a digit below '9'
Malformed(s) == LeftOfNines(s) >= 1 /\ s[LeftOfNines(s)] \notin Digits

\* C20: increment_filename_stem_ordinal returns the empty string exactly
\* when the scan from the right meets a character outside '0'..'9' before a
\* digit below '9'; otherwise the result has the input's length, the
\* trailing '9's are '0's, the digit left of them (if the stem has one) is
\* one higher, and every character further left is as it was.
C20_EmptyExactlyOnMalformed ==
    inc_out.done =>
        LET p == LeftOfNines(inc_in)
        IN /\ inc_out.val = <<>> <=> Malformed(inc_in)
           /\ ~Malformed(inc_in) =>
                 /\ Len(inc_out.val) = Len(inc_in)
                 /\ \A j \in 1..Len(inc_in) :
                      inc_out.val[j] =
                          IF j > p THEN "0"
                          ELSE IF j = p THEN Chr(Code[inc_in[j]] + 1)
                          ELSE inc_in[j]

\* a carry out of a '9' into the digit left of it, the prefix kept
C20_Witness ==
    /\ inc_out.done
    /\ inc_in = <<"A", "8", "9">>
    /\ inc_out.val = <<"A", "9", "0">>

\* a stem whose carry runs into a letter
C20_WitnessMalformed ==
    /\ inc_out.done
    /\ inc_in = <<"A", "9">>
    /\ inc_out.val = <<>>

====
